---- MODULE Spec2Model ----
(***************************************************************************)
(* Model of the tool-calling agent loop of ai-service/agentic_framework.py *)
(* (AgenticFramework.execute_task, execute_tool and the four tool          *)
(* handlers).  The external reasoner (Azure OpenAI chat completion) is the *)
(* environment: each reasoning call nondeterministically answers with a    *)
(* list of tool-call requests, with final text, or fails.                  *)
(***************************************************************************)
EXTENDS Integers, Sequences, FiniteSets, TLC

\* ------------------------------------------------------------------ bounds
MaxSteps == 2      \* largest max_steps a caller passes
MaxCalls == 2      \* most tool-call requests the reasoner puts in one response

\* ------------------------------------------------------- values and helpers
None == "<None>"                       \* Python None (absent message text)

SYSTEM_PROMPT == "You are an AI assistant for enterprise AI governance. ..."

EXHAUSTED_TEXT == "Task exceeded maximum steps. Please refine the task or increase max_steps."

Ok(v) == [exc |-> "none", val |-> <<v>>]
Raise(kind) == [exc |-> kind, val |-> <<>>]

MinUncapped(a, b) == b
Min(a, b) == IF a < b THEN a ELSE b

\* json.dumps(value): the serialized text of a value
JsonDumps(v) == <<"json", v>>

\* Raw argument texts the reasoner can emit: a JSON object, a JSON array, or
\* text that is not JSON at all.
RawObject(doc) == <<"object", doc>>
RawArray(items) == <<"array", items>>
RawGarbage == <<"garbage", <<>>>>

\* json.loads(tool_call.function.arguments)
JsonLoads(raw) ==
    IF raw[1] = "garbage" THEN Raise("JSONDecodeError")
    ELSE Ok([kind |-> raw[1], doc |-> raw[2]])

\* ------------------------------------------------------- process-wide state
VARIABLES
    hash_seed,   \* the interpreter's string-hash seed (fixed per process)
    tool_log     \* the execute_tool invocations made directly, with results

\* ------------------------------------------------------------ tool handlers
risk_mapLowOne == [low |-> 1, medium |-> 5, high |-> 8]
risk_map == [low |-> 2, medium |-> 5, high |-> 8]

calculate_risk_score(a) ==
    IF a.data_sensitivity \notin DOMAIN risk_map THEN Raise("KeyError")
    ELSE IF a.user_impact \notin DOMAIN risk_map THEN Raise("KeyError")
    ELSE
      LET base_score == risk_map[a.data_sensitivity]
                        + (IF a.has_pii THEN 2 ELSE 0)
                        + risk_map[a.user_impact]
          risk_score == Min(10, base_score)
          risk_level == IF risk_score < 4 THEN "low"
                        ELSE IF risk_score < 7 THEN "medium" ELSE "high"
      IN Ok([risk_score |-> risk_score,
             risk_level |-> risk_level,
             factors |-> [data_sensitivity |-> a.data_sensitivity,
                          has_pii |-> a.has_pii,
                          user_impact |-> a.user_impact]])

policies ==
    [data_privacy  |->
       [summary |-> "All AI projects must comply with GDPR, CCPA, and data protection regulations",
        key_requirements |-> <<"Data minimization", "Encryption at rest and in transit",
                               "Role-based access control",
                               "Privacy impact assessment for PII">>,
        approval_required |-> TRUE],
     bias_fairness |->
       [summary |-> "AI systems must be tested for bias and ensure fair outcomes",
        key_requirements |-> <<"Diverse training data", "Bias testing across demographics",
                               "Fairness metrics monitoring", "Regular bias audits">>,
        approval_required |-> FALSE],
     compliance    |->
       [summary |-> "Ensure compliance with industry regulations and standards",
        key_requirements |-> <<"Regulatory mapping", "Compliance documentation",
                               "Audit trail maintenance", "Regular compliance reviews">>,
        approval_required |-> TRUE],
     security      |->
       [summary |-> "Implement robust security measures for AI systems",
        key_requirements |-> <<"Secure API endpoints", "Input validation",
                               "Output sanitization", "Security testing">>,
        approval_required |-> FALSE]]

query_governance_policy(a) ==
    IF a.policy_area \in DOMAIN policies
    THEN Ok(policies[a.policy_area])
    ELSE Ok([error |-> "Policy area not found"])

\* str.lower() on the industry and data-type strings the model uses
Lower(s) ==
    CASE s = "Healthcare" -> "healthcare"
      [] s = "Finance" -> "finance"
      [] s = "Retail" -> "retail"
      [] s = "PII records" -> "pii records"
      [] s = "Medical images" -> "medical images"
      [] s = "Customer reviews" -> "customer reviews"
      [] s = "System logs" -> "system logs"
      [] s = "Analyze customer feedback using NLP" -> "analyze customer feedback using nlp"
      [] s = "Automated decision on medical claims" -> "automated decision on medical claims"
      [] s = "Internal log analytics" -> "internal log analytics"
      [] OTHER -> s

\* sub in s, for the lower-cased strings the model uses
Contains(s, sub) ==
    \/ s = sub
    \/ <<s, sub>> \in {<<"pii records", "pii">>,
                       <<"personal health data", "personal">>,
                       <<"personal health data", "health">>,
                       <<"medical images", "medical">>,
                       <<"customer reviews", "customer">>,
                       <<"analyze customer feedback using nlp", "customer">>,
                       <<"automated decision on medical claims", "automated decision">>,
                       <<"automated decision on medical claims", "medical">>,
                       <<"payment fraud scoring", "payment">>,
                       <<"production chatbot rollout", "production">>}

\* Iteration order of a set of strings: it depends on the string hashes, which
\* are fixed by the interpreter's hash seed for the life of the process.
RECURSIVE SomeOrder(_)
SomeOrder(S) ==
    IF S = {} THEN <<>>
    ELSE LET x == CHOOSE y \in S : TRUE IN <<x>> \o SomeOrder(S \ {x})

Reverse(xs) == [i \in 1..Len(xs) |-> xs[Len(xs) + 1 - i]]

SetOrder(S, seed) == IF seed = 0 THEN SomeOrder(S) ELSE Reverse(SomeOrder(S))

\* list(set(xs)): the distinct elements of xs in the set's iteration order
SetToListUnstable(S) == SetOrder(S, Len(tool_log) % 2)
SetToList(S) == SetOrder(S, hash_seed)

Range(xs) == {xs[i] : i \in DOMAIN xs}

check_compliance_requirementsRepeated(a) ==
    LET industry == a.industry
        data_types == a.data_types
        geographic_regions == IF "geographic_regions" \in DOMAIN a
                              THEN a.geographic_regions ELSE <<>>
        r1 == IF Lower(industry) \in {"healthcare", "health"}
              THEN <<"HIPAA compliance required">> ELSE <<>>
        r2 == IF Lower(industry) \in {"finance", "banking", "financial"}
              THEN <<"SOX compliance", "PCI DSS if handling payments">> ELSE <<>>
        r3 == IF \E i \in DOMAIN data_types :
                    Contains(Lower(data_types[i]), "pii")
                    \/ Contains(Lower(data_types[i]), "personal")
              THEN <<"GDPR compliance (if EU data)",
                     "CCPA compliance (if California residents)">> ELSE <<>>
        r4 == IF \E i \in DOMAIN data_types :
                    Contains(Lower(data_types[i]), "health")
                    \/ Contains(Lower(data_types[i]), "medical")
              THEN <<"HIPAA compliance required">> ELSE <<>>
        r5 == IF "EU" \in Range(geographic_regions) \/ "Europe" \in Range(geographic_regions)
              THEN <<"GDPR compliance mandatory">> ELSE <<>>
        r6 == IF "California" \in Range(geographic_regions) \/ "US" \in Range(geographic_regions)
              THEN <<"CCPA compliance recommended">> ELSE <<>>
        requirements == r1 \o r2 \o r3 \o r4 \o r5 \o r6
    IN Ok([industry |-> industry,
           compliance_requirements |-> SetToList(Range(requirements)),
           high_risk |-> Len(requirements) > 2,
           requires_legal_review |-> Len(requirements) > 0])
check_compliance_requirements(a) ==
    LET industry == a.industry
        data_types == a.data_types
        geographic_regions == IF "geographic_regions" \in DOMAIN a
                              THEN a.geographic_regions ELSE <<>>
        r1 == IF Lower(industry) \in {"healthcare", "health"}
              THEN <<"HIPAA compliance required">> ELSE <<>>
        r2 == IF Lower(industry) \in {"finance", "banking", "financial"}
              THEN <<"SOX compliance", "PCI DSS if handling payments">> ELSE <<>>
        r3 == IF \E i \in DOMAIN data_types :
                    Contains(Lower(data_types[i]), "pii")
                    \/ Contains(Lower(data_types[i]), "personal")
              THEN <<"GDPR compliance (if EU data)",
                     "CCPA compliance (if California residents)">> ELSE <<>>
        r4 == IF \E i \in DOMAIN data_types :
                    Contains(Lower(data_types[i]), "health")
                    \/ Contains(Lower(data_types[i]), "medical")
              THEN <<"HIPAA compliance">> ELSE <<>>
        r5 == IF "EU" \in Range(geographic_regions) \/ "Europe" \in Range(geographic_regions)
              THEN <<"GDPR compliance mandatory">> ELSE <<>>
        r6 == IF "California" \in Range(geographic_regions) \/ "US" \in Range(geographic_regions)
              THEN <<"CCPA compliance recommended">> ELSE <<>>
        requirements == r1 \o r2 \o r3 \o r4 \o r5 \o r6
    IN Ok([industry |-> industry,
           compliance_requirements |-> SetToList(Range(requirements)),
           high_risk |-> Len(requirements) > 2,
           requires_legal_review |-> Len(requirements) > 0])

get_project_metricsStrict(a) ==
    IF a.metric_type = "count"
    THEN Ok([total_projects |-> 24, active_projects |-> 18, completed_projects |-> 6,
             by_risk |-> [low |-> 9, medium |-> 12, high |-> 3]])
    ELSE IF a.metric_type = "risk_distribution"
    THEN Ok([low_risk |-> [count |-> 9, percentage |-> "37.5"],
             medium_risk |-> [count |-> 12, percentage |-> "50.0"],
             high_risk |-> [count |-> 3, percentage |-> "12.5"]])
    ELSE IF a.metric_type = "compliance_status"
    THEN Ok([fully_compliant |-> 18, partially_compliant |-> 4, non_compliant |-> 2,
             compliance_rate |-> "75.0"])
    ELSE IF "filter_by_risk" \in DOMAIN a THEN Raise("ValueError")
    ELSE Ok([error |-> "Unknown metric type"])
get_project_metrics(a) ==
    IF a.metric_type = "count"
    THEN Ok([total_projects |-> 24, active_projects |-> 18, completed_projects |-> 6,
             by_risk |-> [low |-> 9, medium |-> 12, high |-> 3]])
    ELSE IF a.metric_type = "risk_distribution"
    THEN Ok([low_risk |-> [count |-> 9, percentage |-> "37.5"],
             medium_risk |-> [count |-> 12, percentage |-> "50.0"],
             high_risk |-> [count |-> 3, percentage |-> "12.5"]])
    ELSE IF a.metric_type = "compliance_status"
    THEN Ok([fully_compliant |-> 18, partially_compliant |-> 4, non_compliant |-> 2,
             compliance_rate |-> "75.0"])
    ELSE Ok([error |-> "Unknown metric type"])

\* The keys of tool_map: the registry of callable tools
tool_map == {"calculate_risk_score", "query_governance_policy",
             "check_compliance_requirements", "get_project_metrics"}

\* The Python signatures of the handlers: parameters without / with a default
Required(name) ==
    CASE name = "calculate_risk_score" -> {"data_sensitivity", "has_pii", "user_impact"}
      [] name = "query_governance_policy" -> {"policy_area"}
      [] name = "check_compliance_requirements" -> {"industry", "data_types"}
      [] name = "get_project_metrics" -> {"metric_type"}

Optional(name) ==
    CASE name = "check_compliance_requirements" -> {"geographic_regions"}
      [] name = "get_project_metrics" -> {"filter_by_risk"}
      [] OTHER -> {}

Handler(name, a) ==
    CASE name = "calculate_risk_score" -> calculate_risk_score(a)
      [] name = "query_governance_policy" -> query_governance_policy(a)
      [] name = "check_compliance_requirements" -> check_compliance_requirements(a)
      [] name = "get_project_metrics" -> get_project_metrics(a)

\* tool_map[tool_name](**tool_args): keyword binding, then the handler body
CallHandler(name, tool_args) ==
    IF tool_args.kind # "object" THEN Raise("TypeError")
    ELSE IF ~(Required(name) \subseteq DOMAIN tool_args.doc) THEN Raise("TypeError")
    ELSE IF ~(DOMAIN tool_args.doc \subseteq Required(name) \cup Optional(name))
         THEN Raise("TypeError")
    ELSE Handler(name, tool_args.doc)

ToolNotFound(tool_name) == [error |-> <<"Tool ", tool_name, " not found">>]

execute_tool(tool_name, tool_args) ==
    IF tool_name \in tool_map
    THEN CallHandler(tool_name, tool_args)
    ELSE Ok(ToolNotFound(tool_name))

\* ------------------------------------------------------ declared tool schemas
\* self.tools: per tool, the declared properties (with their enumerations,
\* {} when none is declared) and the required fields
tools ==
    [calculate_risk_score |->
        [properties |-> [data_sensitivity |-> {"low", "medium", "high"},
                         has_pii |-> {},
                         user_impact |-> {"low", "medium", "high"}],
         required |-> {"data_sensitivity", "has_pii", "user_impact"}],
     query_governance_policy |->
        [properties |-> [policy_area |-> {"data_privacy", "bias_fairness",
                                          "compliance", "security"}],
         required |-> {"policy_area"}],
     check_compliance_requirements |->
        [properties |-> [industry |-> {}, data_types |-> {}, geographic_regions |-> {}],
         required |-> {"industry", "data_types"}],
     get_project_metrics |->
        [properties |-> [metric_type |-> {"count", "risk_distribution",
                                          "compliance_status"},
                         filter_by_risk |-> {"low", "medium", "high", "all"}],
         required |-> {"metric_type"}]]

\* ------------------------------------------------- the reasoner's responses
\* Tool-call requests (tool_call.id, .function.name, .function.arguments) the
\* reasoner can emit.
Requests ==
    {[id |-> "call_1", name |-> "get_project_metrics",
      arguments |-> RawObject([metric_type |-> "risk_distribution"])],
     [id |-> "call_2", name |-> "calculate_risk_score",
      arguments |-> RawObject([data_sensitivity |-> "high", has_pii |-> TRUE,
                               user_impact |-> "low"])],
     [id |-> "call_3", name |-> "bogus_tool",
      arguments |-> RawObject([metric_type |-> "count"])],
     [id |-> "call_1", name |-> "bogus_tool", arguments |-> RawGarbage],
     [id |-> "call_2", name |-> "query_governance_policy", arguments |-> RawGarbage],
     [id |-> "call_3", name |-> "calculate_risk_score",
      arguments |-> RawObject([data_sensitivity |-> "critical", has_pii |-> FALSE,
                               user_impact |-> "low"])],
     [id |-> "call_1", name |-> "calculate_risk_score",
      arguments |-> RawObject([data_sensitivity |-> "low", has_pii |-> FALSE])],
     [id |-> "call_2", name |-> "get_project_metrics",
      arguments |-> RawObject([metric_type |-> "count", verbose |-> TRUE])]}

\* Non-empty lists of at most MaxCalls requests
RequestLists == UNION {[1..n -> Requests] : n \in 1..MaxCalls}

\* Texts of a response without tool calls (a sentence, empty, or absent)
FinalTexts == {"The risk distribution is 37.5% / 50% / 12.5%.", "", None}

\* ------------------------------------------------------------------- state
VARIABLES
    pc,          \* "Reasoning" | "Dispatching" | "Done" | "Exhausted" | "Raised"
    max_steps,   \* the max_steps argument
    step_num,    \* the loop variable of `for step_num in range(max_steps)`
    messages,    \* the transcript
    steps,       \* the StepRecords
    tool_calls,  \* assistant_message.tool_calls of the current round
    call_idx,    \* position of the inner for loop in tool_calls
    result,      \* <<>> or <<the returned dict>>
    error,       \* "none" or the exception that left execute_task
    llm_calls,   \* number of chat.completions.create calls made
    responses,   \* the assistant messages the reasoner returned, in order
    context,     \* the context argument of execute_task
    cancelled    \* the caller has asked for the running task to be cancelled

\* The service around the loop (app.py)
VARIABLES
    agentic_framework,  \* the module-level instance: "ready", or None
    endpoint,           \* "direct" (execute_task called directly), "agentic", "risk"
    risk_request,       \* the RiskAssessmentRequest, when endpoint = "risk"
    http_status,        \* 0 while the request is not answered, else the status
    http_body           \* <<>> or <<the response model>>

\* Two invocations of execute_task on one AgenticFramework instance
VARIABLES
    tasks,       \* the locals of each invocation
    shared       \* the attributes of the instance (self.tools)

loop == <<pc, max_steps, step_num, messages, steps, tool_calls, call_idx,
          result, error, llm_calls, responses, context>>

service == <<agentic_framework, endpoint, risk_request, http_status, http_body>>

process == <<hash_seed, tool_log>>

instance == <<tasks, shared>>

vars == <<loop, cancelled, service, process, instance>>

\* The context argument: None, an empty dict, or a dict with entries
NoContext == [kind |-> "none", items |-> {}]
EmptyContext == [kind |-> "dict", items |-> {}]
SomeContext == [kind |-> "dict", items |-> {<<"project", "Customer Sentiment Analysis">>}]
Contexts == {NoContext, EmptyContext, SomeContext}

\* `if context:` - None and the empty dict are both falsy
TruthyNotNone(ctx) == ctx.kind = "dict"
Truthy(ctx) == ctx.kind = "dict" /\ ctx.items # {}

TASK_DESCRIPTION == "What is the current risk distribution?"

SeedMessages(task_description, ctx) ==
    <<[role |-> "system",
       content |-> IF Truthy(ctx)
                   THEN <<SYSTEM_PROMPT, "\n\nContext: ", JsonDumps(ctx.items)>>
                   ELSE <<SYSTEM_PROMPT>>],
      [role |-> "user", content |-> task_description]>>

\* The locals of execute_task when the loop is entered
InitLoop(ctx) ==
    /\ pc = "Reasoning"
    /\ step_num = 0
    /\ messages = SeedMessages(TASK_DESCRIPTION, ctx)
    /\ steps = <<>>
    /\ tool_calls = <<>>
    /\ call_idx = 0
    /\ result = <<>>
    /\ error = "none"
    /\ llm_calls = 0
    /\ responses = <<>>
    /\ context = ctx
    /\ cancelled = FALSE

NoRiskRequest == [description |-> "", data_sources |-> <<>>]

\* No HTTP request: execute_task is called directly on a constructed instance
InitDirect ==
    /\ agentic_framework = "ready"
    /\ endpoint = "direct"
    /\ risk_request = NoRiskRequest
    /\ http_status = 0
    /\ http_body = <<>>

InitProcess ==
    /\ hash_seed = 0
    /\ tool_log = <<>>

InitInstance ==
    /\ tasks = <<>>
    /\ shared = [tools |-> tools]

Init ==
    /\ InitLoop(NoContext)
    /\ max_steps \in 1..MaxSteps
    /\ InitDirect
    /\ InitProcess
    /\ InitInstance

\* ------------------------------------------------------- pieces of the loop
\* `for step_num in range(max_steps)`: is there another iteration?
LoopContinuesOffByOne(i, n) == i <= n
LoopContinuesEarlyExit(i, n) == i + 1 < n
LoopContinues(i, n) == i < n

\* range() advancing the loop variable once the body (all calls of the round)
\* has run
NextStepNumPerCall(i, ncalls) == i + ncalls
NextStepNum(i, ncalls) == i + 1

AssistantMessage(content, calls) ==
    [role |-> "assistant", content |-> content, tool_calls |-> calls]

\* messages.append(assistant_message)
AppendAssistantDropped(msgs, m) == msgs
AppendAssistantInsertFront(msgs, m) == <<m>> \o msgs
AppendAssistant(msgs, m) == Append(msgs, m)

ToolMessageStaleId(tool_call, tool_name, tool_result) ==
    [role |-> "tool", tool_call_id |-> "call_0", name |-> tool_name,
     content |-> JsonDumps(tool_result)]
ToolMessage(tool_call, tool_name, tool_result) ==
    [role |-> "tool", tool_call_id |-> tool_call.id, name |-> tool_name,
     content |-> JsonDumps(tool_result)]

StepRecordZeroBased(i, tool_name, tool_args, tool_result) ==
    [step_number |-> i,
     action |-> <<"Called tool: ", tool_name>>,
     tool_used |-> tool_name,
     tool_input |-> tool_args,
     observation |-> JsonDumps(tool_result),
     reasoning |-> <<"Using ", tool_name, " to gather information">>]
StepRecord(i, tool_name, tool_args, tool_result) ==
    [step_number |-> i + 1,
     action |-> <<"Called tool: ", tool_name>>,
     tool_used |-> tool_name,
     tool_input |-> tool_args,
     observation |-> JsonDumps(tool_result),
     reasoning |-> <<"Using ", tool_name, " to gather information">>]

\* steps.append(...)
RecordStepPrepend(ss, rec) == <<rec>> \o ss
RecordStep(ss, rec) == Append(ss, rec)

FinalResultMiscounted(final_answer, ss) ==
    [final_answer |-> final_answer, steps |-> ss,
     total_steps |-> Len(ss) + 1, success |-> TRUE]
FinalResult(final_answer, ss) ==
    [final_answer |-> final_answer, steps |-> ss,
     total_steps |-> Len(ss), success |-> TRUE]

ExhaustedResult(ss) ==
    [final_answer |-> EXHAUSTED_TEXT, steps |-> ss,
     total_steps |-> Len(ss), success |-> FALSE]

\* ------------------------------------------------------------------ actions
\* The reasoning call answers with tool-call requests.
ReasonToolCalls ==
    /\ pc = "Reasoning"
    /\ LoopContinues(step_num, max_steps)
    /\ \E calls \in RequestLists :
         LET assistant_message == AssistantMessage(None, calls) IN
         /\ messages' = AppendAssistant(messages, assistant_message)
         /\ tool_calls' = calls
         /\ responses' = Append(responses, assistant_message)
    /\ call_idx' = 1
    /\ llm_calls' = llm_calls + 1
    /\ pc' = "Dispatching"
    /\ UNCHANGED <<context, cancelled, service, process, instance>>
    /\ UNCHANGED <<max_steps, step_num, steps, result, error>>

\* The reasoning call answers without tool calls: the final answer.
ReasonFinal ==
    /\ pc = "Reasoning"
    /\ LoopContinues(step_num, max_steps)
    /\ \E content \in FinalTexts :
         /\ responses' = Append(responses, AssistantMessage(content, <<>>))
         /\ result' = <<FinalResult(content, steps)>>
    /\ llm_calls' = llm_calls + 1
    /\ pc' = "Done"
    /\ UNCHANGED <<context, cancelled, service, process, instance>>
    /\ UNCHANGED <<max_steps, step_num, messages, steps, tool_calls, call_idx, error>>

\* The reasoning call itself raises (network, auth, quota).
ReasonFails ==
    /\ pc = "Reasoning"
    /\ LoopContinues(step_num, max_steps)
    /\ llm_calls' = llm_calls + 1
    /\ error' = "APIError"
    /\ pc' = "Raised"
    /\ UNCHANGED <<context, cancelled, service, process, instance>>
    /\ UNCHANGED <<max_steps, step_num, messages, steps, tool_calls, call_idx,
                   result, responses>>

\* The for loop is over: the max-steps return.
ReturnExhausted ==
    /\ pc = "Reasoning"
    /\ ~LoopContinues(step_num, max_steps)
    /\ result' = <<ExhaustedResult(steps)>>
    /\ pc' = "Exhausted"
    /\ UNCHANGED <<context, cancelled, service, process, instance>>
    /\ UNCHANGED <<max_steps, step_num, messages, steps, tool_calls, call_idx,
                   error, llm_calls, responses>>

\* Position after one call of the round has been handled
AdvanceCallShortCircuit ==
    /\ call_idx' = 0
    /\ step_num' = NextStepNum(step_num, Len(tool_calls))
    /\ pc' = "Reasoning"
AdvanceCall ==
    IF call_idx < Len(tool_calls)
    THEN /\ call_idx' = call_idx + 1
         /\ UNCHANGED <<pc, step_num>>
    ELSE /\ call_idx' = 0
         /\ step_num' = NextStepNum(step_num, Len(tool_calls))
         /\ pc' = "Reasoning"

\* One iteration of `for tool_call in assistant_message.tool_calls` that runs
\* to its end: parse, execute, append the tool message, record the step.
DispatchCall ==
    /\ pc = "Dispatching"
    /\ LET tool_call == tool_calls[call_idx]
           tool_name == tool_call.name
           parsed == JsonLoads(tool_call.arguments)
       IN /\ parsed.exc = "none"
          /\ LET tool_args == parsed.val[1]
                 executed == execute_tool(tool_name, tool_args)
             IN /\ executed.exc = "none"
                /\ LET tool_result == executed.val[1] IN
                   /\ messages' = Append(messages,
                                         ToolMessage(tool_call, tool_name, tool_result))
                   /\ steps' = RecordStep(steps,
                                 StepRecord(step_num, tool_name, tool_args, tool_result))
    /\ AdvanceCall
    /\ UNCHANGED <<context, cancelled, service, process, instance>>
    /\ UNCHANGED <<max_steps, tool_calls, result, error, llm_calls, responses>>

\* json.loads raises on the call's arguments: the exception leaves execute_task.
DispatchParseRaises ==
    /\ pc = "Dispatching"
    /\ LET parsed == JsonLoads(tool_calls[call_idx].arguments)
       IN /\ parsed.exc # "none"
          /\ error' = parsed.exc
    /\ pc' = "Raised"
    /\ UNCHANGED <<context, cancelled, service, process, instance>>
    /\ UNCHANGED <<max_steps, step_num, messages, steps, tool_calls, call_idx,
                   result, llm_calls, responses>>

\* execute_tool raises (keyword binding or handler body): the exception leaves
\* execute_task.
DispatchToolRaises ==
    /\ pc = "Dispatching"
    /\ LET tool_call == tool_calls[call_idx]
           parsed == JsonLoads(tool_call.arguments)
       IN /\ parsed.exc = "none"
          /\ LET executed == execute_tool(tool_call.name, parsed.val[1])
             IN /\ executed.exc # "none"
                /\ error' = executed.exc
    /\ pc' = "Raised"
    /\ UNCHANGED <<context, cancelled, service, process, instance>>
    /\ UNCHANGED <<max_steps, step_num, messages, steps, tool_calls, call_idx,
                   result, llm_calls, responses>>

Next ==
    \/ ReasonToolCalls
    \/ ReasonFinal
    \/ ReasonFails
    \/ ReturnExhausted
    \/ DispatchCall
    \/ DispatchParseRaises
    \/ DispatchToolRaises

Spec == Init /\ [][Next]_vars

\* The loop is sequential code that runs on unless an exception leaves it,
\* and the reasoning call is a blocking exchange that returns or raises.
FairSpec == Spec /\ WF_vars(Next)

\* ------------------------------------------------------------- cancellation
\* The caller asks for the running task to be cancelled (asyncio cancel of
\* the coroutine, or a deadline passing).  execute_task takes no deadline or
\* cancellation argument and has no await inside the loop: nothing reads it.
Cancel ==
    /\ pc \in {"Reasoning", "Dispatching"}
    /\ ~cancelled
    /\ cancelled' = TRUE
    /\ UNCHANGED <<loop, service, process, instance>>

NextCancel ==
    \/ Next
    \/ Cancel

SpecCancel == Init /\ [][NextCancel]_vars

\* ------------------------------------------------ the HTTP endpoints (app.py)
\* `if not agentic_framework`
FrameworkMissingNever(fw) == FALSE
FrameworkMissing(fw) == fw = None

\* Status of the HTTPException raised before the try block
NOT_INITIALIZED_STATUS == 503

\* Status of the HTTPException raised by `except Exception`
TASK_FAILED_STATUS == 500

\* Does AgenticResponse(...) validate?  final_answer: str, steps: List[AgenticStep]
\* with tool_input: Optional[Dict[str, Any]]
ValidAgenticResponse(res) ==
    /\ res.final_answer # None
    /\ \A i \in DOMAIN res.steps : res.steps[i].tool_input.kind = "object"

\* The AgenticResponse built from the result (task_id and processing_time_ms
\* carry no information of the task)
AgenticResponse(res) ==
    [final_answer |-> res.final_answer, steps |-> res.steps,
     total_steps |-> res.total_steps, success |-> res.success]

\* Requests to /api/risk/assess
RiskRequests ==
    {[description |-> "Analyze customer feedback using NLP",
      data_sources |-> <<"Customer reviews", "System logs">>],
     [description |-> "Automated decision on medical claims",
      data_sources |-> <<"PII records", "Medical images">>],
     [description |-> "Internal log analytics",
      data_sources |-> <<"System logs">>],
     [description |-> "payment fraud scoring",
      data_sources |-> <<"System logs">>],
     [description |-> "production chatbot rollout",
      data_sources |-> <<>>]}

\* keyword in ' '.join(data_sources).lower()
JoinedContains(data_sources, keyword) ==
    \E i \in DOMAIN data_sources : Contains(Lower(data_sources[i]), keyword)

\* The body of assess_risk's try block
assess_risk(request) ==
    LET description == Lower(request.description)
        has_pii == \E keyword \in {"pii", "personal", "customer", "user data",
                                   "email", "phone"} :
                      \/ Contains(description, keyword)
                      \/ JoinedContains(request.data_sources, keyword)
        data_sensitivity ==
            IF \E kw \in {"health", "medical", "financial", "payment", "ssn",
                          "credit card"} : Contains(description, kw)
            THEN "high" ELSE "medium"
        user_impact ==
            IF \E kw \in {"customer-facing", "production", "critical",
                          "automated decision"} : Contains(description, kw)
            THEN "high" ELSE "medium"
        risk == calculate_risk_score([data_sensitivity |-> data_sensitivity,
                                      has_pii |-> has_pii,
                                      user_impact |-> user_impact])
        compliance == check_compliance_requirements(
                         [industry |-> "general",
                          data_types |-> request.data_sources])
    IN IF risk.exc # "none" THEN Raise(risk.exc)
       ELSE
         LET risk_result == risk.val[1]
             compliance_result == compliance.val[1]
             risk_scores ==
                <<[dimension |-> "Data Privacy & Security",
                   score |-> IF has_pii THEN 8 ELSE 4,
                   severity |-> IF has_pii THEN "high" ELSE "medium"],
                  [dimension |-> "Bias & Fairness", score |-> 5,
                   severity |-> "medium"],
                  [dimension |-> "Regulatory Compliance",
                   score |-> IF compliance_result.requires_legal_review THEN 7 ELSE 3,
                   severity |-> IF compliance_result.requires_legal_review
                                THEN "high" ELSE "low"]>>
         IN Ok([overall_risk_score |-> risk_result.risk_score,
                risk_level |-> risk_result.risk_level,
                risk_scores |-> risk_scores,
                compliance_requirements |-> compliance_result.compliance_requirements,
                approval_required |->
                    \/ risk_result.risk_level \in {"medium", "high"}
                    \/ compliance_result.requires_legal_review])

\* Both endpoints: the framework was not initialized.
HttpUnavailable ==
    /\ pc = "Request"
    /\ endpoint \in {"agentic", "risk"}
    /\ http_status = 0
    /\ FrameworkMissing(agentic_framework)
    /\ http_status' = NOT_INITIALIZED_STATUS
    /\ UNCHANGED <<loop, cancelled, agentic_framework, endpoint, risk_request,
                   http_body, process, instance>>

\* /api/agentic/execute: execute_task is called with the request's fields.
HttpAgenticExecute ==
    /\ pc = "Request"
    /\ endpoint = "agentic"
    /\ http_status = 0
    /\ ~FrameworkMissing(agentic_framework)
    /\ messages' = SeedMessages(TASK_DESCRIPTION, context)
    /\ pc' = "Reasoning"
    /\ UNCHANGED <<max_steps, step_num, steps, tool_calls, call_idx, result, error,
                   llm_calls, responses, context, cancelled, service, process,
                   instance>>

\* /api/agentic/execute: the result is turned into an AgenticResponse.
HttpAgenticRespond ==
    /\ endpoint = "agentic"
    /\ pc \in {"Done", "Exhausted"}
    /\ http_status = 0
    /\ ValidAgenticResponse(result[1])
    /\ http_status' = 200
    /\ http_body' = <<AgenticResponse(result[1])>>
    /\ UNCHANGED <<loop, cancelled, agentic_framework, endpoint, risk_request,
                   process, instance>>

\* /api/agentic/execute: execute_task or the response model raised.
HttpAgenticFailedSwallowed ==
    /\ endpoint = "agentic"
    /\ http_status = 0
    /\ \/ pc = "Raised"
       \/ pc \in {"Done", "Exhausted"} /\ ~ValidAgenticResponse(result[1])
    /\ http_status' = 200
    /\ http_body' = <<[success |-> FALSE]>>
    /\ UNCHANGED <<loop, cancelled, agentic_framework, endpoint, risk_request,
                   process, instance>>
HttpAgenticFailed ==
    /\ endpoint = "agentic"
    /\ http_status = 0
    /\ \/ pc = "Raised"
       \/ pc \in {"Done", "Exhausted"} /\ ~ValidAgenticResponse(result[1])
    /\ http_status' = TASK_FAILED_STATUS
    /\ UNCHANGED <<loop, cancelled, agentic_framework, endpoint, risk_request,
                   http_body, process, instance>>

\* /api/risk/assess with an initialized framework.
HttpRiskAssess ==
    /\ pc = "Request"
    /\ endpoint = "risk"
    /\ http_status = 0
    /\ ~FrameworkMissing(agentic_framework)
    /\ LET assessed == assess_risk(risk_request) IN
       IF assessed.exc = "none"
       THEN /\ http_status' = 200
            /\ http_body' = <<assessed.val[1]>>
       ELSE /\ http_status' = TASK_FAILED_STATUS
            /\ http_body' = <<>>
    /\ UNCHANGED <<loop, cancelled, agentic_framework, endpoint, risk_request,
                   process, instance>>

\* A request arrives at one of the two endpoints; the module-level
\* agentic_framework is the instance made by lifespan, or still None.
InitHttp ==
    /\ pc = "Request"
    /\ step_num = 0
    /\ messages = <<>>
    /\ steps = <<>>
    /\ tool_calls = <<>>
    /\ call_idx = 0
    /\ result = <<>>
    /\ error = "none"
    /\ llm_calls = 0
    /\ responses = <<>>
    /\ context = EmptyContext
    /\ cancelled = FALSE
    /\ agentic_framework \in {"ready", None}
    /\ endpoint \in {"agentic", "risk"}
    /\ IF endpoint = "agentic"
       THEN max_steps \in 1..MaxSteps /\ risk_request = NoRiskRequest
       ELSE max_steps = 1 /\ risk_request \in RiskRequests
    /\ http_status = 0
    /\ http_body = <<>>
    /\ InitProcess
    /\ InitInstance

NextHttp ==
    \/ Next
    \/ HttpUnavailable
    \/ HttpAgenticExecute
    \/ HttpAgenticRespond
    \/ HttpAgenticFailed
    \/ HttpRiskAssess

SpecHttp == InitHttp /\ [][NextHttp]_vars

\* ------------------------------- two invocations on one framework instance
MaxConcSteps == 1     \* largest max_steps of a concurrent invocation
MaxConcCalls == 1     \* most tool-call requests in one response to one of them

Invocations == {1, 2}

TaskDescriptions ==
    <<TASK_DESCRIPTION, "Which policies apply to customer data?">>

\* The requests the reasoner makes of the concurrent invocations: four of
\* Requests, one of which raises.
ConcRequests ==
    {[id |-> "call_1", name |-> "get_project_metrics",
      arguments |-> RawObject([metric_type |-> "risk_distribution"])],
     [id |-> "call_2", name |-> "calculate_risk_score",
      arguments |-> RawObject([data_sensitivity |-> "high", model_complexity |-> "medium",
                               user_impact |-> "low"])],
     [id |-> "call_3", name |-> "bogus_tool",
      arguments |-> RawObject([metric_type |-> "risk_distribution"])],
     [id |-> "call_3", name |-> "calculate_risk_score",
      arguments |-> RawObject([data_sensitivity |-> "critical", model_complexity |-> "low",
                               user_impact |-> "low"])]}

ConcRequestLists == UNION {[1..n -> ConcRequests] : n \in 1..MaxConcCalls}

\* The locals of invocation i when its loop is entered
TaskInit(i, n) ==
    [pc |-> "Reasoning", max_steps |-> n, step_num |-> 0,
     messages |-> SeedMessages(TaskDescriptions[i], NoContext),
     steps |-> <<>>, tool_calls |-> <<>>, call_idx |-> 0,
     result |-> <<>>, error |-> "none", responses |-> <<>>]

\* One reasoning response taken by an invocation: tool calls, or the final answer
TaskRespond(t, assistant_message) ==
    IF assistant_message.tool_calls # <<>>
    THEN [t EXCEPT !.messages = AppendAssistant(@, assistant_message),
                   !.tool_calls = assistant_message.tool_calls,
                   !.call_idx = 1,
                   !.responses = Append(@, assistant_message),
                   !.pc = "Dispatching"]
    ELSE [t EXCEPT !.responses = Append(@, assistant_message),
                   !.result = <<FinalResult(assistant_message.content, t.steps)>>,
                   !.pc = "Done"]

TaskExhausted(t) ==
    [t EXCEPT !.result = <<ExhaustedResult(t.steps)>>, !.pc = "Exhausted"]

TaskRaised(t, kind) == [t EXCEPT !.error = kind, !.pc = "Raised"]

\* What an invocation at the top of the for loop can do next
TaskReason(t) ==
    IF ~LoopContinues(t.step_num, t.max_steps)
    THEN {TaskExhausted(t)}
    ELSE {TaskRespond(t, AssistantMessage(None, calls)) : calls \in ConcRequestLists}
         \cup {TaskRespond(t, AssistantMessage(content, <<>>)) : content \in FinalTexts}
         \cup {TaskRaised(t, "APIError")}

\* One iteration of the inner loop of an invocation
TaskDispatch(t) ==
    LET tool_call == t.tool_calls[t.call_idx]
        tool_name == tool_call.name
        parsed == JsonLoads(tool_call.arguments)
    IN IF parsed.exc # "none" THEN TaskRaised(t, parsed.exc)
       ELSE LET tool_args == parsed.val[1]
                executed == execute_tool(tool_name, tool_args)
            IN IF executed.exc # "none" THEN TaskRaised(t, executed.exc)
               ELSE LET tool_result == executed.val[1]
                        last == t.call_idx = Len(t.tool_calls)
                    IN [t EXCEPT
                          !.messages = Append(@, ToolMessage(tool_call, tool_name, tool_result)),
                          !.steps = RecordStep(@, StepRecord(t.step_num, tool_name,
                                                             tool_args, tool_result)),
                          !.call_idx = IF last THEN 0 ELSE @ + 1,
                          !.step_num = IF last THEN NextStepNum(@, Len(t.tool_calls)) ELSE @,
                          !.pc = IF last THEN "Reasoning" ELSE @]

\* messages and steps are locals of the call (lines 289-302): what one
\* invocation writes is seen by that invocation only.
CommitSharedSteps(ts, i, t) ==
    [j \in DOMAIN ts |-> IF j = i THEN t ELSE [ts[j] EXCEPT !.steps = t.steps]]
Commit(ts, i, t) == [ts EXCEPT ![i] = t]

\* No invocation of the single-task variables is running
LoopNotStarted ==
    /\ pc = "Request"
    /\ max_steps = 1
    /\ step_num = 0
    /\ messages = <<>>
    /\ steps = <<>>
    /\ tool_calls = <<>>
    /\ call_idx = 0
    /\ result = <<>>
    /\ error = "none"
    /\ llm_calls = 0
    /\ responses = <<>>
    /\ context = NoContext
    /\ cancelled = FALSE

InitConc ==
    /\ LoopNotStarted
    /\ InitDirect
    /\ InitProcess
    /\ \E n \in [Invocations -> 1..MaxConcSteps] :
          tasks = [i \in Invocations |-> TaskInit(i, n[i])]
    /\ shared = [tools |-> tools]

\* Invocation i runs up to its next reasoning call's return.
ConcReason ==
    \E i \in Invocations :
       /\ tasks[i].pc = "Reasoning"
       /\ \E t \in TaskReason(tasks[i]) : tasks' = Commit(tasks, i, t)
       /\ UNCHANGED <<loop, cancelled, service, process, shared>>

\* Invocation i handles the next tool call of its round.
ConcDispatch ==
    \E i \in Invocations :
       /\ tasks[i].pc = "Dispatching"
       /\ tasks' = Commit(tasks, i, TaskDispatch(tasks[i]))
       /\ UNCHANGED <<loop, cancelled, service, process, shared>>

NextConc ==
    \/ ConcReason
    \/ ConcDispatch

SpecConc == InitConc /\ [][NextConc]_vars

\* The same invocation run alone against a given list of reasoner responses
RECURSIVE DispatchN(_, _)
DispatchN(t, n) ==
    IF n = 0 \/ t.pc # "Dispatching" THEN t ELSE DispatchN(TaskDispatch(t), n - 1)

RECURSIVE Replay(_, _)
Replay(t, rs) ==
    IF t.pc # "Reasoning" THEN t
    ELSE IF ~LoopContinues(t.step_num, t.max_steps) THEN TaskExhausted(t)
    ELSE IF rs = <<>> THEN t
    ELSE Replay(DispatchN(TaskRespond(t, rs[1]), Len(rs[1].tool_calls)), Tail(rs))

\* ... stopped where invocation t stands now
AloneAt(i, t) ==
    IF t.call_idx = 0
    THEN Replay(TaskInit(i, t.max_steps), t.responses)
    ELSE LET n == Len(t.responses)
             before == Replay(TaskInit(i, t.max_steps), SubSeq(t.responses, 1, n - 1))
         IN DispatchN(TaskRespond(before, t.responses[n]), t.call_idx - 1)

\* --------------------------------------- execute_tool called again and again
MaxInvocations == 2   \* most execute_tool calls made in one process

ToolArgs(doc) == [kind |-> "object", doc |-> doc]

\* calculate_risk_score over its declared enumerations, and one value outside
RiskScoreInputs ==
    {[name |-> "calculate_risk_score",
      args |-> ToolArgs([data_sensitivity |-> ds, has_pii |-> pii, user_impact |-> ui])] :
        ds \in {"low", "medium", "high"}, pii \in BOOLEAN, ui \in {"low", "medium", "high"}}
    \cup {[name |-> "calculate_risk_score",
           args |-> ToolArgs([data_sensitivity |-> "critical", has_pii |-> FALSE,
                              user_impact |-> "low"])]}

Industries == {"Healthcare", "Finance", "Retail"}
DataTypeLists ==
    {<<"System logs">>, <<"PII records">>, <<"Medical images">>,
     <<"Medical images", "PII records">>}
RegionLists == {<<"EU">>, <<"EU", "US">>}

\* check_compliance_requirements without and with geographic_regions
ComplianceInputs ==
    {[name |-> "check_compliance_requirements",
      args |-> ToolArgs([industry |-> ind, data_types |-> dts])] :
        ind \in Industries, dts \in DataTypeLists}
    \cup {[name |-> "check_compliance_requirements",
           args |-> ToolArgs([industry |-> ind, data_types |-> dts,
                              geographic_regions |-> grs])] :
             ind \in Industries, dts \in DataTypeLists, grs \in RegionLists}

MetricTypes == {"count", "risk_distribution", "compliance_status", "velocity"}

\* get_project_metrics without and with filter_by_risk, inside and outside the
\* declared enumerations
MetricsInputs ==
    {[name |-> "get_project_metrics", args |-> ToolArgs([metric_type |-> mt])] :
        mt \in MetricTypes}
    \cup {[name |-> "get_project_metrics",
           args |-> ToolArgs([metric_type |-> mt, filter_by_risk |-> f])] :
             mt \in MetricTypes, f \in {"high", "everything"}}

PolicyInputs ==
    {[name |-> "query_governance_policy", args |-> ToolArgs([policy_area |-> area])] :
        area \in {"data_privacy", "ethics"}}

\* Tool names and parsed arguments execute_tool is called with
ToolInputs ==
    RiskScoreInputs \cup ComplianceInputs \cup MetricsInputs \cup PolicyInputs
    \cup {[name |-> "bogus_tool", args |-> ToolArgs([metric_type |-> "count"])]}

\* The interpreter starts with one of the hash seeds; nothing has been called.
InitTools ==
    /\ LoopNotStarted
    /\ InitDirect
    /\ InitInstance
    /\ hash_seed \in {0, 1}
    /\ tool_log = <<>>

\* self.execute_tool(tool_name, tool_args), its outcome kept by the caller
InvokeTool ==
    /\ Len(tool_log) < MaxInvocations
    /\ \E inp \in ToolInputs :
          tool_log' = Append(tool_log,
                             [name |-> inp.name, args |-> inp.args,
                              result |-> execute_tool(inp.name, inp.args)])
    /\ UNCHANGED <<loop, cancelled, service, hash_seed, instance>>

NextTools == InvokeTool

SpecTools == InitTools /\ [][NextTools]_vars

\* ------------------------------------------- execute_task given a context
InitSeed ==
    /\ \E ctx \in Contexts : InitLoop(ctx)
    /\ max_steps = 1
    /\ InitDirect
    /\ InitProcess
    /\ InitInstance

SpecSeed == InitSeed /\ [][Next]_vars

TypeOK ==
    /\ pc \in {"Request", "Reasoning", "Dispatching", "Done", "Exhausted", "Raised"}
    /\ max_steps \in 1..MaxSteps
    /\ step_num \in 0..max_steps
    /\ Len(result) \in {0, 1}

\* ------------------------------------------------- operators for the claims
\* Does the argument object doc fit the declared schema of tool name?
FitsSchema(name, doc) ==
    LET schema == tools[name] IN
    /\ schema.required \subseteq DOMAIN doc
    /\ DOMAIN doc \subseteq DOMAIN schema.properties
    /\ \A f \in DOMAIN doc :
          schema.properties[f] # {} => doc[f] \in schema.properties[f]

\* All tool-call requests of a list of responses, in emission order
RECURSIVE RequestsOf(_)
RequestsOf(rs) ==
    IF rs = <<>> THEN <<>>
    ELSE RequestsOf(SubSeq(rs, 1, Len(rs) - 1)) \o rs[Len(rs)].tool_calls

\* The call the inner loop is working on (or was, when an exception left it)
InCall == call_idx > 0
CurrentCall == tool_calls[call_idx]

\* The requests that have been handled to the end so far
HandledRequests ==
    IF InCall
    THEN RequestsOf(SubSeq(responses, 1, Len(responses) - 1))
         \o SubSeq(tool_calls, 1, call_idx - 1)
    ELSE RequestsOf(responses)

Returned == pc \in {"Done", "Exhausted"}

\* What was requested, as (tool_used, tool_input) pairs
Requested(reqs) ==
    [i \in DOMAIN reqs |->
        [tool_used |-> reqs[i].name,
         tool_input |-> JsonLoads(reqs[i].arguments).val[1]]]

Recorded(ss) ==
    [i \in DOMAIN ss |-> [tool_used |-> ss[i].tool_used, tool_input |-> ss[i].tool_input]]

OneCallPerRound == \A r \in DOMAIN responses : Len(responses[r].tool_calls) = 1

\* ------------------------------------------------------------------- claims

\* C1: one execution of execute_task with max_steps = N >= 1 makes at most N
\* calls to the reasoning capability, however many tool calls a round requests.
C1_AtMostNReasoningCalls ==
    /\ llm_calls <= max_steps
    /\ Len(responses) <= max_steps

\* C1 witness: all N reasoning calls were made, and more tool calls than N ran.
C1_Witness ==
    /\ pc = "Exhausted"
    /\ llm_calls = max_steps
    /\ Len(steps) > max_steps

\* C2: an exception raised inside a tool handler's body during a dispatch (here
\* the KeyError of calculate_risk_score) never leaves execute_task: it is turned
\* into a failure observation and the loop goes on.
C2_HandlerExceptionCaught ==
    ~(pc = "Raised" /\ InCall /\ error = "KeyError")

\* C3: a request naming a tool that is not in the registry raises no exception;
\* every such request handled so far has exactly one StepRecord with tool_used
\* equal to the requested name and an error observation naming the tool.
C3_UnknownToolIsObservation ==
    /\ ~(pc = "Raised" /\ InCall /\ CurrentCall.name \notin tool_map)
    /\ Len(steps) = Len(HandledRequests)
    /\ \A i \in DOMAIN steps :
          HandledRequests[i].name \notin tool_map =>
             /\ steps[i].tool_used = HandledRequests[i].name
             /\ steps[i].observation = JsonDumps(ToolNotFound(HandledRequests[i].name))

\* C4: a call naming a registered tool whose (parseable) arguments do not fit
\* the declared schema is reported as a failed observation, never raised to
\* the caller of execute_task.
C4_SchemaMismatchNotRaised ==
    ~(/\ pc = "Raised"
      /\ InCall
      /\ CurrentCall.name \in tool_map
      /\ CurrentCall.arguments[1] = "object"
      /\ ~FitsSchema(CurrentCall.name, CurrentCall.arguments[2]))

\* C5: raw arguments that cannot be parsed at all are recorded as a failed
\* observation; they never abort execute_task.
C5_UnparseableArgsNotFatal ==
    ~(pc = "Raised" /\ InCall /\ JsonLoads(CurrentCall.arguments).exc # "none")

\* C6: in every returned TaskResult the StepRecords are the tool-call requests
\* in the order the reasoner emitted them, earlier rounds first.
C6_StepsInRequestOrder ==
    Returned => Recorded(result[1].steps) = Requested(RequestsOf(responses))

\* C6 witness: a result whose steps come from two rounds, one of them with two
\* different calls.
C6_Witness ==
    /\ Returned
    /\ Len(responses) >= 2
    /\ Len(responses[1].tool_calls) = 2
    /\ responses[1].tool_calls[1] # responses[1].tool_calls[2]
    /\ Len(responses[2].tool_calls) >= 1
    /\ Len(result[1].steps) >= 3

\* C7: every Tool turn's tool_call_id is the id of a request carried by the
\* most recent Assistant turn before it (so none precedes all Assistant turns).
C7_ToolTurnMatchesAssistant ==
    \A i \in DOMAIN messages :
       messages[i].role = "tool" =>
          \E j \in 1..(i - 1) :
             /\ messages[j].role = "assistant"
             /\ \A k \in (j + 1)..(i - 1) : messages[k].role # "assistant"
             /\ \E c \in DOMAIN messages[j].tool_calls :
                   messages[j].tool_calls[c].id = messages[i].tool_call_id

\* C7 witness: two Assistant turns, each followed by a Tool turn, with
\* different call ids.
C7_Witness ==
    \E i, j \in DOMAIN messages :
       /\ i < j
       /\ messages[i].role = "tool"
       /\ messages[j].role = "tool"
       /\ messages[i].tool_call_id # messages[j].tool_call_id
       /\ \E k \in (i + 1)..(j - 1) : messages[k].role = "assistant"

\* C8: a response without tool calls in round r ends the task at once:
\* success, final_answer = the response's text, steps = the StepRecords of
\* rounds 1..r-1, total_steps = their number, and r reasoning calls in all.
C8_FinalAnswerReturnsAtOnce ==
    pc = "Done" =>
       LET r == Len(responses)
           earlier == RequestsOf(SubSeq(responses, 1, r - 1))
       IN /\ r <= max_steps
          /\ responses[r].tool_calls = <<>>
          /\ result[1].success = TRUE
          /\ result[1].final_answer = responses[r].content
          /\ result[1].steps = steps
          /\ Len(steps) = Len(earlier)
          /\ result[1].total_steps = Len(earlier)
          /\ llm_calls = r
          /\ Len(messages) = 2 + (r - 1) + Len(earlier)

\* C8 witness: a final answer after a round that ran two tool calls.
C8_Witness ==
    /\ pc = "Done"
    /\ Len(responses) = 2
    /\ result[1].total_steps = 2
    /\ result[1].final_answer # None

\* C9: when every round requested exactly one tool call and no final text came,
\* the returned result is the exhaustion result: success = false, exactly
\* max_steps StepRecords (the last one from round max_steps), sentinel text.
C9_OneCallPerRoundExhausts ==
    (pc = "Exhausted" /\ OneCallPerRound) =>
       /\ result[1].success = FALSE
       /\ result[1].final_answer = EXHAUSTED_TEXT
       /\ Len(result[1].steps) = max_steps
       /\ result[1].total_steps = max_steps
       /\ result[1].steps[max_steps].step_number = max_steps
       /\ llm_calls = max_steps

\* C9 witness: exhaustion after max_steps > 1 rounds of one call each.
C9_Witness ==
    /\ pc = "Exhausted"
    /\ OneCallPerRound
    /\ max_steps > 1
    /\ Len(result[1].steps) = max_steps

\* C10: the budget counts rounds, not calls: between rounds the loop variable
\* equals the number of rounds made, whatever the number of calls dispatched,
\* and all calls of those rounds are recorded.
C10_BudgetCountsRounds ==
    pc \in {"Reasoning", "Exhausted"} =>
       /\ step_num = Len(responses)
       /\ step_num <= max_steps
       /\ Len(steps) = Len(RequestsOf(responses))

\* C10 witness: a TaskResult with more StepRecords than max_steps.
C10_Witness ==
    /\ Returned
    /\ result[1].total_steps > max_steps
    /\ \E r \in DOMAIN responses : Len(responses[r].tool_calls) > 1

\* C11: when a reasoning call is about to be issued after a round, the
\* transcript ends with that round's Assistant turn followed by one Tool turn
\* per request, in request order, each request recorded once - also when an
\* earlier call of the round produced a failure observation.
C11_RoundCompleteBeforeReasoning ==
    (pc = "Reasoning" /\ responses # <<>>) =>
       LET r == Len(responses)
           prev == responses[r]
           k == Len(prev.tool_calls)
           n == Len(messages)
           m == Len(steps)
       IN /\ call_idx = 0
          /\ n >= k + 3
          /\ m >= k
          /\ messages[n - k] = prev
          /\ \A c \in 1..k :
                /\ messages[n - k + c].role = "tool"
                /\ messages[n - k + c].tool_call_id = prev.tool_calls[c].id
                /\ messages[n - k + c].name = prev.tool_calls[c].name
                /\ steps[m - k + c].tool_used = prev.tool_calls[c].name
                /\ steps[m - k + c].step_number = r
          /\ m = Len(RequestsOf(responses))

\* C11 witness: a second reasoning call is due after a round of two calls whose
\* first call named an unknown tool.
C11_Witness ==
    /\ pc = "Reasoning"
    /\ LoopContinues(step_num, max_steps)
    /\ Len(responses) = 1
    /\ Len(responses[1].tool_calls) = 2
    /\ responses[1].tool_calls[1].name \notin tool_map
    /\ responses[1].tool_calls[2].name \in tool_map

\* C12: a response with no tool calls and empty or absent text ends the task
\* as Done with success = true, and the /api/agentic/execute endpoint answers
\* it with a normal response (it is not a fatal condition).
C12_EmptyFinalTextNotFatal ==
    (pc = "Done" /\ responses[Len(responses)].content \in {"", None}) =>
       /\ result[1].success = TRUE
       /\ http_status \in {0, 200}

\* C13: a failed reasoning call aborts the task: no TaskResult, the failed call
\* is the last one (no retry), nothing is dispatched after it, and the
\* endpoint answers with a 5xx status.
C13_ReasoningFailureAborts ==
    (pc = "Raised" /\ error = "APIError") =>
       /\ result = <<>>
       /\ llm_calls = Len(responses) + 1
       /\ call_idx = 0
       /\ Len(steps) = Len(RequestsOf(responses))
       /\ Len(messages) = 2 + Len(responses) + Len(steps)
       /\ http_body = <<>>
       /\ http_status \in {0} \cup 500..599

\* C13 witness: the reasoning call of round 2 failed and the endpoint answered.
C13_Witness ==
    /\ pc = "Raised"
    /\ error = "APIError"
    /\ Len(responses) = 1
    /\ Len(steps) >= 1
    /\ http_status = 500

IsPrefix(a, b) == Len(a) <= Len(b) /\ SubSeq(b, 1, Len(a)) = a

\* C14: once the caller's cancellation signal is set, the loop issues no
\* further reasoning call and no further tool dispatch, and what it returns is
\* a TaskResult with success = false carrying the StepRecords made so far.
C14_CancellationStopsLoop ==
    [][cancelled =>
          /\ llm_calls' = llm_calls
          /\ steps' = steps
          /\ result' # <<>> => (result'[1].success = FALSE /\ result'[1].steps = steps)]_vars

\* C15: every step of execute_task leaves the seeded transcript unchanged or
\* appends turns at its end: the earlier transcript is a prefix of the later.
C15_TranscriptAppendOnly ==
    [][IsPrefix(messages, messages')]_vars

\* C15 witness: the transcript has grown over two rounds of dispatches.
C15_Witness ==
    /\ Len(messages) >= 6
    /\ \E i, j \in DOMAIN messages :
          i < j /\ messages[i].role = "assistant" /\ messages[j].role = "assistant"

\* C17: every execution eventually ends as Done or Exhausted with a
\* TaskResult, or as an abort caused by a failed reasoning call.
C17_EndsInListedOutcome ==
    <>(\/ pc \in {"Done", "Exhausted"} /\ result # <<>>
       \/ pc = "Raised" /\ error = "APIError")

\* C16: two overlapping invocations on one instance each keep a transcript
\* and a step list made only of their own turns and records, each returns the
\* TaskResult it would return running alone against the same reasoner
\* responses, and the declared tools of the instance do not change.
C16_InvocationsIsolated ==
    /\ shared = [tools |-> tools]
    /\ \A i \in DOMAIN tasks :
          LET t == tasks[i]
              alone == AloneAt(i, t)
          IN /\ t.messages = alone.messages
             /\ t.steps = alone.steps
             /\ t.messages[2].content = TaskDescriptions[i]
             /\ t.pc \in {"Done", "Exhausted"} =>
                   /\ alone.pc = t.pc
                   /\ t.result = alone.result

\* C16 witness: both invocations have returned after overlapping, with
\* different step lists.
C16_Witness ==
    /\ DOMAIN tasks = Invocations
    /\ \A i \in Invocations : tasks[i].pc \in {"Done", "Exhausted"}
    /\ tasks[1].steps # <<>>
    /\ tasks[2].steps # <<>>
    /\ tasks[1].steps # tasks[2].steps

SeededTurns(with_context) ==
    <<[role |-> "system",
       content |-> IF with_context
                   THEN <<SYSTEM_PROMPT, "\n\nContext: ", JsonDumps(context.items)>>
                   ELSE <<SYSTEM_PROMPT>>],
      [role |-> "user", content |-> TASK_DESCRIPTION]>>

\* C20 as stated: the transcript starts with [System, User], the User turn the
\* task description, the System turn the fixed text with the serialized
\* context appended iff a context is supplied, an empty mapping included.
C20_ContextAppendedIffSupplied ==
    /\ Len(messages) >= 2
    /\ llm_calls = 0 => Len(messages) = 2
    /\ SubSeq(messages, 1, 2) = SeededTurns(context.kind = "dict")

\* C20 amended: ... with the serialized context appended iff a non-empty
\* context is supplied; no context and an empty mapping both leave the fixed
\* text alone.
C20_ContextAppendedIffNonEmpty ==
    /\ Len(messages) >= 2
    /\ llm_calls = 0 => Len(messages) = 2
    /\ SubSeq(messages, 1, 2) = SeededTurns(context.kind = "dict" /\ context.items # {})

\* C20 witness: the loop has run on a transcript seeded with an empty mapping
\* as context, whose System turn is the fixed text alone.
C20_Witness ==
    /\ llm_calls >= 1
    /\ context = EmptyContext
    /\ messages[1].content = <<SYSTEM_PROMPT>>

\* The 1-based round that made each request, in request order
RECURSIVE RoundsOf(_)
RoundsOf(rs) ==
    IF rs = <<>> THEN <<>>
    ELSE RoundsOf(SubSeq(rs, 1, Len(rs) - 1))
         \o [k \in 1..Len(rs[Len(rs)].tool_calls) |-> Len(rs)]

ToolTurns(msgs) == {i \in DOMAIN msgs : msgs[i].role = "tool"}

\* C21: a returned TaskResult has one StepRecord per tool invocation
\* (total_steps = number of Tool turns), each step_number is the 1-based round
\* that requested the call, lies in 1..max_steps, never decreases along steps,
\* and is shared by the calls of one round.
C21_StepNumberIsRound ==
    Returned =>
       LET ss == result[1].steps
           rounds == RoundsOf(responses)
       IN /\ result[1].total_steps = Cardinality(ToolTurns(messages))
          /\ Len(ss) = Cardinality(ToolTurns(messages))
          /\ Len(ss) = Len(rounds)
          /\ \A k \in DOMAIN ss :
                /\ ss[k].step_number = rounds[k]
                /\ 1 <= ss[k].step_number
                /\ ss[k].step_number <= max_steps
          /\ \A k \in DOMAIN ss : k > 1 => ss[k - 1].step_number <= ss[k].step_number

\* C21 witness: a result whose first round made two calls and whose second
\* round made another.
C21_Witness ==
    /\ Returned
    /\ Len(result[1].steps) >= 3
    /\ result[1].steps[1].step_number = 1
    /\ result[1].steps[2].step_number = 1
    /\ result[1].steps[3].step_number = 2

\* The logged invocations of one tool
LogOf(name) == {i \in DOMAIN tool_log : tool_log[i].name = name}

\* C22: for data_sensitivity and user_impact in {low, medium, high} and any
\* has_pii, calculate_risk_score returns an integer risk_score in 4..10 equal
\* to min(10, w(data_sensitivity) + w(user_impact) + (2 if has_pii else 0)) with
\* w = {low: 2, medium: 5, high: 8}; risk_level is "medium" below 7 and "high"
\* otherwise, never "low".
C22_RiskScoreFormula ==
    \A i \in LogOf("calculate_risk_score") :
       LET a == tool_log[i].args.doc
           w == [low |-> 2, medium |-> 5, high |-> 8]
       IN (a.data_sensitivity \in DOMAIN w /\ a.user_impact \in DOMAIN w) =>
             /\ tool_log[i].result.exc = "none"
             /\ LET r == tool_log[i].result.val[1]
                    sum == w[a.data_sensitivity] + w[a.user_impact]
                           + (IF a.has_pii THEN 2 ELSE 0)
                IN /\ r.risk_score \in 4..10
                   /\ r.risk_score = (IF sum > 10 THEN 10 ELSE sum)
                   /\ r.risk_level = (IF r.risk_score < 7 THEN "medium" ELSE "high")
                   /\ r.risk_level # "low"

\* C22 witness: the lowest input (low, low, no PII) and a capped one (high,
\* high, PII) have both been scored.
C22_Witness ==
    /\ \E i \in LogOf("calculate_risk_score") :
          /\ tool_log[i].result.exc = "none"
          /\ tool_log[i].result.val[1].risk_score = 4
          /\ tool_log[i].result.val[1].risk_level = "medium"
    /\ \E i \in LogOf("calculate_risk_score") :
          /\ tool_log[i].args.doc.data_sensitivity = "high"
          /\ tool_log[i].args.doc.user_impact = "high"
          /\ tool_log[i].args.doc.has_pii
          /\ tool_log[i].result.val[1].risk_score = 10

C24_ComplianceFlagsAgree ==
    \A i \in LogOf("check_compliance_requirements") :
       /\ tool_log[i].result.exc = "none"
       /\ LET r == tool_log[i].result.val[1]
              reqs == r.compliance_requirements
          IN /\ \A j, k \in DOMAIN reqs : reqs[j] = reqs[k] => j = k
             /\ r.requires_legal_review = (Len(reqs) > 0)
             /\ r.high_risk = (Len(reqs) > 2)

\* C24 witness: inputs giving no requirement, exactly two, and more than two
\* have been checked (two of them in one run).
C24_Witness ==
    /\ \E i \in LogOf("check_compliance_requirements") :
          /\ Len(tool_log[i].result.val[1].compliance_requirements) = 2
          /\ ~tool_log[i].result.val[1].high_risk
    /\ \E i \in LogOf("check_compliance_requirements") :
          /\ tool_log[i].args.doc.industry = "Healthcare"
          /\ Len(tool_log[i].result.val[1].compliance_requirements) > 4
          /\ tool_log[i].result.val[1].high_risk

====
